---- MODULE Spec2Model ----
(***************************************************************************)
(* A model of the web scraper (src/main.py) and of its Flask API           *)
(* (src/app.py): the selector cascades, the static and rendered news       *)
(* fetchers, the catalog and trending acquirers, the scroll loop, and the  *)
(* freshness-gated cache of the API handlers.                              *)
(*                                                                         *)
(* Python values are modelled as strings; None is the string None below.   *)
(* A parsed document (BeautifulSoup tree or live DOM) is a function from   *)
(* the selectors that match something to the first matching element.       *)
(***************************************************************************)
EXTENDS Integers, Sequences, FiniteSets, TLC

VARIABLES
    now,          \* API: wall clock, seconds
    workbooks,    \* API: the .xlsx files of RESULTS_DIR, one per mtime
    anime_json,   \* API: results/anilist_trending_anime.json
    last,         \* API: the last request handled and its response
    call,         \* acquirers in isolation: the last call, inputs and result
    alive         \* number of browser instances created and not yet quit

apiVars == <<now, workbooks, anime_json, last>>
vars == <<now, workbooks, anime_json, last, call, alive>>

(***************************************************************************)
(* Python values                                                           *)
(***************************************************************************)
None == "<None>"

\* Python truthiness of a string-or-None value: `not v`
Falsy(v) == v \in {None, ""}

\* Python `a or b`
Or(a, b) == IF Falsy(a) THEN b ELSE a

\* str.strip() / get_text(strip=True) on the texts the model uses
Strip(t) == IF t = " " THEN "" ELSE t

Range(s) == {s[k] : k \in DOMAIN s}

(***************************************************************************)
(* Configuration (src/main.py:37-65)                                       *)
(***************************************************************************)
NEWS_SOURCES ==
    << [name |-> "kompas", url |-> "https://www.kompas.com/"],
       [name |-> "detik",  url |-> "https://www.detik.com/"],
       [name |-> "tribun", url |-> "https://www.tribunnews.com/"] >>

HEADLINE_SELECTORS ==
    [kompas |-> <<".read__title", ".headline__title", ".most__title", ".trending__title">>,
     detik  |-> <<".detail__title", ".media__title", ".title", "h1.title", "h2.title">>,
     tribun |-> <<".hltitle", ".headline-caption", ".newslist-title", "h1.f50">>]

IMAGE_SELECTORS ==
    [kompas |-> <<".photo__wrap img", ".headline__thumb img", "img.lozad">>,
     detik  |-> <<".detail__img-wrap img", ".headline__img img", "picture img">>,
     tribun |-> <<".imgpreview img", ".headline-img img", ".news-image img">>]

\* str.capitalize() on the configured source names
capitalize(name) ==
    CASE name = "kompas" -> "Kompas"
      [] name = "detik"  -> "Detik"
      [] name = "tribun" -> "Tribun"
      [] OTHER           -> name

HEADLINE_NOT_FOUND == "Headline tidak ditemukan"
IMAGE_NOT_FOUND == "Image tidak ditemukan"

(***************************************************************************)
(* Documents                                                               *)
(***************************************************************************)
\* soup.select_one(sel) / driver.find_element(sel) finds an element
HasMatch(doc, sel) == sel \in DOMAIN doc

(***************************************************************************)
(* Static news path: the two cascades of get_news (src/main.py:420-441)    *)
(***************************************************************************)
\* for selector in HEADLINE_SELECTORS[media_name]: the first selector that
\* finds an element ends the loop, whatever its stripped text is
RECURSIVE StaticHeadlineFrom(_, _, _)
StaticHeadlineFrom(soup, sels, k) ==
    IF k > Len(sels) THEN None
    ELSE IF HasMatch(soup, sels[k])
         THEN Strip(soup[sels[k]].text)
         ELSE StaticHeadlineFrom(soup, sels, k + 1)

StaticHeadline(media_name, soup) ==
    IF media_name \in DOMAIN HEADLINE_SELECTORS
    THEN StaticHeadlineFrom(soup, HEADLINE_SELECTORS[media_name], 1)
    ELSE None

\* for selector in IMAGE_SELECTORS[media_name]: image_url is assigned at every
\* element found and the loop ends at the first non-empty src / data-src
RECURSIVE StaticImageFrom_NoBreak(_, _, _, _)
StaticImageFrom_NoBreak(soup, sels, k, image_url) ==
    IF k > Len(sels) THEN image_url
    ELSE IF HasMatch(soup, sels[k])
         THEN StaticImageFrom_NoBreak(soup, sels, k + 1,
                                      Or(soup[sels[k]].src, soup[sels[k]].dsrc))
         ELSE StaticImageFrom_NoBreak(soup, sels, k + 1, image_url)

RECURSIVE StaticImageFrom(_, _, _, _)
StaticImageFrom(soup, sels, k, image_url) ==
    IF k > Len(sels) THEN image_url
    ELSE IF HasMatch(soup, sels[k])
         THEN LET v == Or(soup[sels[k]].src, soup[sels[k]].dsrc)
              IN  IF ~Falsy(v) THEN v ELSE StaticImageFrom(soup, sels, k + 1, v)
         ELSE StaticImageFrom(soup, sels, k + 1, image_url)

StaticImage(media_name, soup) ==
    IF media_name \in DOMAIN IMAGE_SELECTORS
    THEN StaticImageFrom(soup, IMAGE_SELECTORS[media_name], 1, None)
    ELSE None

(***************************************************************************)
(* Rendered news path: get_news_with_selenium (src/main.py:284-394)        *)
(***************************************************************************)
SeleniumHeadlineSelectors(media_name) ==
    IF media_name \in DOMAIN HEADLINE_SELECTORS
    THEN HEADLINE_SELECTORS[media_name]
    ELSE <<"h1", "h2.title", ".headline", ".title">>

SeleniumImageSelectors(media_name) ==
    IF media_name \in DOMAIN IMAGE_SELECTORS
    THEN IMAGE_SELECTORS[media_name]
    ELSE <<"img">>

\* lines 319-327: NoSuchElementException continues; the stripped text is
\* assigned at every element found and the loop ends at the first non-empty one
RECURSIVE SeleniumHeadlineFrom(_, _, _, _)
SeleniumHeadlineFrom(dom, sels, k, headline_text) ==
    IF k > Len(sels) THEN headline_text
    ELSE IF HasMatch(dom, sels[k])
         THEN LET v == Strip(dom[sels[k]].text)
              IN  IF ~Falsy(v) THEN v ELSE SeleniumHeadlineFrom(dom, sels, k + 1, v)
         ELSE SeleniumHeadlineFrom(dom, sels, k + 1, headline_text)

SeleniumHeadline(media_name, dom) ==
    SeleniumHeadlineFrom(dom, SeleniumHeadlineSelectors(media_name), 1, None)

\* lines 330-341
RECURSIVE SeleniumImageFrom(_, _, _, _)
SeleniumImageFrom(dom, sels, k, image_url) ==
    IF k > Len(sels) THEN image_url
    ELSE IF HasMatch(dom, sels[k])
         THEN LET v == Or(dom[sels[k]].src, dom[sels[k]].dsrc)
              IN  IF ~Falsy(v) THEN v ELSE SeleniumImageFrom(dom, sels, k + 1, v)
         ELSE SeleniumImageFrom(dom, sels, k + 1, image_url)

SeleniumImage(media_name, dom) ==
    SeleniumImageFrom(dom, SeleniumImageSelectors(media_name), 1, None)

\* lines 344-354: find_elements("h1, h2, .title"); fb.raises when the search
\* raised, else fb.texts lists the texts of the elements found
FallbackHeadline(headline_text, fb) ==
    IF ~Falsy(headline_text) THEN headline_text
    ELSE IF fb.raises THEN HEADLINE_NOT_FOUND
    ELSE IF Len(fb.texts) > 0 THEN Strip(fb.texts[1])
    ELSE headline_text

\* src.endswith(".jpg") or src.endswith(".png") or src.endswith(".jpeg"),
\* on the src values the model uses
EndsWithImageExt(src) ==
    src \in {"https://cdn.example/fallback.jpg", "https://cdn.example/fallback.png"}

\* lines 357-374: the first <img> whose src is non-empty and ends in an image
\* extension
RECURSIVE FirstImageSrc(_, _)
FirstImageSrc(srcs, k) ==
    IF k > Len(srcs) THEN None
    ELSE IF ~Falsy(srcs[k]) /\ EndsWithImageExt(srcs[k]) THEN srcs[k]
    ELSE FirstImageSrc(srcs, k + 1)

FallbackImage(image_url, fb) ==
    IF ~Falsy(image_url) THEN image_url
    ELSE IF fb.raises THEN IMAGE_NOT_FOUND
    ELSE IF FirstImageSrc(fb.srcs, 1) # None THEN FirstImageSrc(fb.srcs, 1)
    ELSE image_url

\* str(e) of the exception raised by the browser
ErrorText(fail) ==
    CASE fail = "create" -> "Message: session not created"
      [] fail = "get"    -> "Message: timeout"
      [] OTHER           -> "unexpected"

\* driver = create_chrome_driver(): 1 when a browser instance was created
DriverCreated(fail) == IF fail = "create" THEN 0 ELSE 1

\* finally: if driver: driver.quit()  (src/main.py:180-183, 391-394), reached
\* on every exit path: "return", "early_return" and "except"
FinallyQuit_ReturnOnly(driver, exit) == IF driver = 1 /\ exit = "return" THEN 1 ELSE 0

FinallyQuit(driver, exit) == IF driver = 1 THEN 1 ELSE 0

\* the record returned on the normal path (lines 376-381 and 450-455)
NewsRecord_NoSentinel(media_name, url, headline_text, image_url) ==
    [Media |-> capitalize(media_name), Headline |-> headline_text,
     Image |-> image_url, URL |-> url]

NewsRecord(media_name, url, headline_text, image_url) ==
    [Media    |-> capitalize(media_name),
     Headline |-> Or(headline_text, HEADLINE_NOT_FOUND),
     Image    |-> Or(image_url, IMAGE_NOT_FOUND),
     URL      |-> url]

\* rweb.fail: "create" (create_chrome_driver raises), "get" (driver.get or a
\* later browser command raises) or "none".  The result carries the record
\* returned and the browsers created and quit.
get_news_with_selenium(media_name, url, rweb) ==
    LET driver == DriverCreated(rweb.fail)
    IN  IF rweb.fail # "none"
        THEN [result  |-> [Media    |-> capitalize(media_name),
                           Headline |-> "Error: " \o ErrorText(rweb.fail),
                           Image    |-> "Error",
                           URL      |-> url],
              created |-> driver,
              quit    |-> FinallyQuit(driver, "except")]
        ELSE LET headline_text == FallbackHeadline(SeleniumHeadline(media_name, rweb.dom),
                                                    rweb.fb_headline)
                 image_url     == FallbackImage(SeleniumImage(media_name, rweb.dom),
                                                rweb.fb_image)
             IN  [result  |-> NewsRecord(media_name, url, headline_text, image_url),
                  created |-> driver,
                  quit    |-> FinallyQuit(driver, "return")]

(***************************************************************************)
(* get_news (src/main.py:397-470)                                          *)
(***************************************************************************)
\* line 444: if not headline_text or not image_url
NeedsSelenium_Always(headline_text, image_url) == TRUE

NeedsSelenium(headline_text, image_url) == Falsy(headline_text) \/ Falsy(image_url)

\* lines 448, 461: return get_news_with_selenium(media_name, url); what the
\* static path resolved (headline_text, image_url) is not passed on
EscalatedRecord_KeepStatic(selenium_result, headline_text, image_url) ==
    [selenium_result EXCEPT
        !.Headline = IF Falsy(headline_text) THEN @ ELSE headline_text,
        !.Image    = IF Falsy(image_url) THEN @ ELSE image_url]

EscalatedRecord(selenium_result, headline_text, image_url) == selenium_result

\* lines 457-463: the except clause that catches what the static path raised
Handler_Generic(outcome) == "Exception"

Handler(outcome) == IF outcome = "request_error" THEN "RequestException" ELSE "Exception"

\* sweb.outcome: "ok" (a 2xx response, parsed into sweb.soup), "request_error"
\* (requests raises a RequestException) or "error" (any other exception).
\* calls lists the fetch engines invoked, in order.
get_news(media_name, url, sweb, rweb) ==
    LET selenium == get_news_with_selenium(media_name, url, rweb)
        escalate(h, i) == [result  |-> EscalatedRecord(selenium.result, h, i),
                           calls   |-> <<"static", "selenium">>,
                           created |-> selenium.created,
                           quit    |-> selenium.quit]
    IN  CASE sweb.outcome # "ok" /\ Handler(sweb.outcome) = "RequestException" ->
                escalate(None, None)
          [] sweb.outcome # "ok" ->
                [result  |-> [Media    |-> capitalize(media_name),
                              Headline |-> "Error: " \o "unexpected",
                              Image    |-> "N/A",
                              URL      |-> url],
                 calls   |-> <<"static">>,
                 created |-> 0,
                 quit    |-> 0]
          [] OTHER ->
                LET headline_text == StaticHeadline(media_name, sweb.soup)
                    image_url     == StaticImage(media_name, sweb.soup)
                IN  IF NeedsSelenium(headline_text, image_url)
                    THEN escalate(headline_text, image_url)
                    ELSE [result  |-> NewsRecord(media_name, url, headline_text, image_url),
                          calls   |-> <<"static">>,
                          created |-> 0,
                          quit    |-> 0]

\* the per-source loop of get_news_data, scrape_all and main
\* (src/app.py:53-66, 150-162; src/main.py:653-671); webs[k] is the pair of
\* web outcomes met by source k.  get_news catches every exception, so the
\* except branch of the loop is never taken.
RECURSIVE ScrapeNewsFrom(_, _)
ScrapeNewsFrom(webs, k) ==
    IF k > Len(NEWS_SOURCES) THEN <<>>
    ELSE <<get_news(NEWS_SOURCES[k].name, NEWS_SOURCES[k].url,
                    webs[k].sweb, webs[k].rweb)>>
         \o ScrapeNewsFrom(webs, k + 1)

RECURSIVE SumOf(_, _)
SumOf(f, k) == IF k > Len(f) THEN 0 ELSE f[k] + SumOf(f, k + 1)

ScrapeNews(webs) ==
    LET outs == ScrapeNewsFrom(webs, 1)
    IN  [news_data |-> [k \in DOMAIN outs |-> outs[k].result],
         calls     |-> [k \in DOMAIN outs |-> outs[k].calls],
         created   |-> SumOf([k \in DOMAIN outs |-> outs[k].created], 1),
         quit      |-> SumOf([k \in DOMAIN outs |-> outs[k].quit], 1)]

(***************************************************************************)
(* scroll_and_collect (src/main.py:188-206)                                *)
(***************************************************************************)
max_scrolls == 20

\* line 194: while scroll_count < max_scrolls
WhileScrolling_OffByOne(scroll_count) == scroll_count <= max_scrolls

WhileScrolling(scroll_count) == scroll_count < max_scrolls

\* line 202: if new_height == last_height: break
ReachedBottom_Never(new_height, last_height) == FALSE

ReachedBottom(new_height, last_height) == new_height = last_height

(***************************************************************************)
(* Catalog: process_book_elements (src/main.py:209-281)                    *)
(***************************************************************************)
BOOK_SELECTORS ==
    [img       |-> <<"img.object-contain", "img.product-image",
                     "img[data-testid='productImage']">>,
     title     |-> <<"h2.text-neutral-700", "h2.product-title", "div.product-name",
                     "[data-testid='productTitle']">>,
     publisher |-> <<"div.text-neutral-500", "div.publisher", "div.product-publisher",
                     "[data-testid='productPublisher']">>,
     price     |-> <<"div.text-s-extrabold", "div.product-price", "div.price",
                     "[data-testid='productPrice']">>]

NA == "N/A"

\* lines 251-258: what is read from the element found
Extract(element_type, element) ==
    CASE element_type = "img"       -> element.src
      [] element_type = "title"     -> Or(element.title, element.text)
      [] element_type = "publisher" -> Or(element.title, element.text)
      [] OTHER                      -> Strip(element.text)

\* lines 247-265, one field: NoSuchElementException continues; the variable is
\* assigned at every element found and the loop ends when it is truthy; an
\* element that raises anything else aborts the book (raised)
RECURSIVE BookFieldFrom(_, _, _, _, _)
BookFieldFrom(book, element_type, sels, k, value) ==
    IF k > Len(sels) THEN [value |-> value, raised |-> FALSE]
    ELSE IF ~HasMatch(book, sels[k])
         THEN BookFieldFrom(book, element_type, sels, k + 1, value)
    ELSE IF book[sels[k]].raises THEN [value |-> value, raised |-> TRUE]
    ELSE LET v == Extract(element_type, book[sels[k]])
         IN  IF ~Falsy(v) THEN [value |-> v, raised |-> FALSE]
             ELSE BookFieldFrom(book, element_type, sels, k + 1, v)

BookField(book, element_type) ==
    BookFieldFrom(book, element_type, BOOK_SELECTORS[element_type], 1, NA)

\* lines 240-279, one book: the fields are resolved in the order img, title,
\* publisher, price; <<>> when the book is skipped
ProcessBook(book) ==
    LET img       == BookField(book, "img")
        title     == BookField(book, "title")
        publisher == BookField(book, "publisher")
        price     == BookField(book, "price")
    IN  IF img.raised \/ title.raised \/ publisher.raised \/ price.raised
        THEN <<>>
        ELSE << [Judul     |-> title.value,
                 Penerbit  |-> publisher.value,
                 Harga     |-> price.value,
                 ImageURL  |-> img.value] >>

RECURSIVE process_book_elements_from_Abort(_, _)
process_book_elements_from_Abort(books, k) ==
    IF k > Len(books) \/ ProcessBook(books[k]) = <<>> THEN <<>>
    ELSE ProcessBook(books[k]) \o process_book_elements_from_Abort(books, k + 1)

RECURSIVE process_book_elements_from(_, _)
process_book_elements_from(books, k) ==
    IF k > Len(books) THEN <<>>
    ELSE ProcessBook(books[k]) \o process_book_elements_from(books, k + 1)

process_book_elements(books) == process_book_elements_from(books, 1)

(***************************************************************************)
(* Catalog: get_international_books (src/main.py:107-185)                  *)
(***************************************************************************)
CONTAINER_SELECTORS ==
    <<"div.ProductCard_cardContent__fawWr", "div.product-card",
      "div[data-testid='productCard']", "div.product-item">>

\* driver.find_elements(By.CSS_SELECTOR, sel)
find_elements(dom, sel) == IF sel \in DOMAIN dom THEN dom[sel] ELSE <<>>

\* lines 155-160: the list found by the first selector that finds anything;
\* books keeps the (empty) list of the last selector tried otherwise
RECURSIVE FindBooksFrom_Merge(_, _, _)
FindBooksFrom_Merge(dom, sels, k) ==
    IF k > Len(sels) THEN <<>>
    ELSE find_elements(dom, sels[k]) \o FindBooksFrom_Merge(dom, sels, k + 1)

RECURSIVE FindBooksFrom(_, _, _)
FindBooksFrom(dom, sels, k) ==
    IF k > Len(sels) THEN <<>>
    ELSE IF Len(find_elements(dom, sels[k])) > 0 THEN find_elements(dom, sels[k])
    ELSE FindBooksFrom(dom, sels, k + 1)

FindBooks(dom) == FindBooksFrom(dom, CONTAINER_SELECTORS, 1)

\* line 162: if not books
NoBooks_Never(books) == FALSE

NoBooks(books) == Len(books) = 0

\* cweb.fail: "create" (create_chrome_driver raises), "get" (driver.get,
\* scroll_and_collect or find_elements raises) or "none"; cweb.wait_timeout:
\* the soft wait for the product cards timed out; cweb.dom: the page after
\* scrolling (scroll_and_collect is modelled by ScrollStart and ScrollIter).
get_international_books(cweb) ==
    LET driver == DriverCreated(cweb.fail)
        books  == FindBooks(cweb.dom)
    IN  IF cweb.fail # "none"
        THEN [data |-> <<>>, exit |-> "except",
              screenshot |-> FALSE, page_source_saved |-> FALSE,
              created |-> driver, quit |-> FinallyQuit(driver, "except")]
        ELSE IF NoBooks(books)
        THEN [data |-> <<>>, exit |-> "early_return",
              screenshot |-> cweb.wait_timeout, page_source_saved |-> TRUE,
              created |-> driver, quit |-> FinallyQuit(driver, "early_return")]
        ELSE [data |-> process_book_elements(books), exit |-> "return",
              screenshot |-> cweb.wait_timeout, page_source_saved |-> FALSE,
              created |-> driver, quit |-> FinallyQuit(driver, "return")]


(***************************************************************************)
(* Trending: AniListScraper (src/main.py:473-637)                          *)
(***************************************************************************)
\* image_url.startswith("//"), on the src values the model uses
StartsWithSlashes(src) == src \in {"//s4.anilist.co/cover/a.jpg"}

\* lines 506-531, one card: src and title are None when the card has no
\* img.image[src] or no div.title
CardEntry(card) ==
    LET src       == IF card.src = None THEN "" ELSE card.src
        image_url == IF StartsWithSlashes(src) THEN "https:" \o src ELSE src
        title     == IF card.title = None THEN "" ELSE Strip(card.title)
    IN  [title |-> title, image |-> image_url, tag |-> title]

\* extract_data_from_html: page.ok is FALSE when fetch_page returned None
extract_data_from_html(results, page) ==
    IF ~page.ok THEN results
    ELSE results \o [k \in DOMAIN page.cards |-> CardEntry(page.cards[k])]

\* lines 576-589, one media item; subscripting a null title or coverImage
\* raises TypeError
MediaRaises(anime) == anime.title.null \/ anime.coverImage.null

MediaEntry_TagRomaji(anime) ==
    LET title     == Or(Or(anime.title.romaji, anime.title.english), anime.title.native)
        image_url == Or(anime.coverImage.large, anime.coverImage.medium)
    IN  [title |-> title, image |-> image_url, tag |-> anime.title.romaji]

MediaEntry(anime) ==
    LET title     == Or(Or(anime.title.romaji, anime.title.english), anime.title.native)
        image_url == Or(anime.coverImage.large, anime.coverImage.medium)
    IN  [title |-> title, image |-> image_url, tag |-> title]

\* the entries appended by the loop of lines 576-589 up to the first item
\* that raises
RECURSIVE MediaEntriesFrom(_, _)
MediaEntriesFrom(media, k) ==
    IF k > Len(media) \/ MediaRaises(media[k]) THEN <<>>
    ELSE <<MediaEntry(media[k])>> \o MediaEntriesFrom(media, k + 1)

\* use_graphql_api: api.kind is "request_error" (requests raises) or "json";
\* api.has_keys: the response holds data.Page.media
use_graphql_api(results, api) ==
    IF api.kind = "request_error"
    THEN [results |-> results, count |-> 0, raised |-> FALSE]
    ELSE IF ~api.has_keys
    THEN [results |-> results, count |-> Len(results), raised |-> FALSE]
    ELSE LET after == results \o MediaEntriesFrom(api.media, 1)
         IN  [results |-> after, count |-> Len(after),
              raised  |-> \E k \in DOMAIN api.media : MediaRaises(api.media[k])]

\* run(use_api=True), lines 616-637: saved tells whether save_to_json ran
run(results, tweb) ==
    LET api == use_graphql_api(results, tweb.api)
        extracted == IF api.count > 0 THEN api.results
                     ELSE extract_data_from_html(api.results, tweb.page)
    IN  IF api.raised
        THEN [results |-> api.results, raised |-> TRUE, saved |-> FALSE]
        ELSE [results |-> extracted, raised |-> FALSE, saved |-> Len(extracted) > 0]

(***************************************************************************)
(* Artifacts (src/app.py)                                                  *)
(***************************************************************************)
NaN == "<NaN>"

\* pd.read_excel on one cell: empty cells and the default NA strings read
\* back as NaN
ReadCell(v) == IF v \in {None, "", "N/A", "NA", "null", "None", "nan"} THEN NaN ELSE v

\* pd.read_excel(file_path, sheet_name=...).to_dict(orient="records")
ReadSheet(rows) ==
    [k \in DOMAIN rows |-> [col \in DOMAIN rows[k] |-> ReadCell(rows[k][col])]]

\* sorted(excel_files, key=getmtime, reverse=True)[0]
LatestFile(files) == CHOOSE f \in files : \A g \in files : g.mtime <= f.mtime

\* the columns of the frame written to the "Gramedia Books" sheet:
\* pd.DataFrame(book_data) takes them from the keys of the records (those of
\* src/main.py:267-272) and has none when the list is empty
BOOK_COLUMNS == <<"Judul", "Penerbit", "Harga", "Image URL">>

DataFrameColumns(book_data) == IF Len(book_data) = 0 THEN <<>> ELSE BOOK_COLUMNS

\* main (src/main.py:689-697): an empty list gets the explicit columns
MainBooksColumns(book_data) ==
    IF Len(book_data) = 0 THEN BOOK_COLUMNS ELSE DataFrameColumns(book_data)

NEWS_TTL == 3600
BOOKS_TTL == 7200
ANIME_TTL == 10800

\* (datetime.now().timestamp() - file_time) < ttl
IsFresh_Inclusive(file_time, ttl) == (now - file_time) <= ttl

IsFresh(file_time, ttl) == (now - file_time) < ttl

\* the state of the trending JSON after a run of the scraper
AnimeJsonAfter(out) ==
    IF out.saved THEN [exists |-> TRUE, mtime |-> now, data |-> out.results]
    ELSE anime_json

(***************************************************************************)
(* Bounds                                                                  *)
(***************************************************************************)
\* in a whole get_news call only the first MaxLoc selectors of each list may
\* match (the single-cascade calls below use the full lists)
MaxLoc == 1
\* item containers found by one container selector
MaxBooks == 2

(***************************************************************************)
(* The web: the documents a call may meet                                  *)
(***************************************************************************)
TextAt(sel) == "text of " \o sel
SrcAt(sel) == "https://img.example/src/" \o sel
DataSrcAt(sel) == "https://img.example/data-src/" \o sel
TitleAt(sel) == "title of " \o sel

\* the element found by sel, by kind; raises: reading it raises (a stale
\* element); src and data-src are None when the attribute is absent
Element(kind, sel) ==
    CASE kind = "text"   -> [raises |-> FALSE, text |-> TextAt(sel), title |-> None,
                             src |-> None, dsrc |-> None]
      [] kind = "blank"  -> [raises |-> FALSE, text |-> " ", title |-> None,
                             src |-> None, dsrc |-> None]
      [] kind = "title"  -> [raises |-> FALSE, text |-> "", title |-> TitleAt(sel),
                             src |-> None, dsrc |-> None]
      [] kind = "src"    -> [raises |-> FALSE, text |-> "", title |-> None,
                             src |-> SrcAt(sel), dsrc |-> None]
      [] kind = "dsrc"   -> [raises |-> FALSE, text |-> "", title |-> None,
                             src |-> None, dsrc |-> DataSrcAt(sel)]
      [] kind = "both"   -> [raises |-> FALSE, text |-> "", title |-> None,
                             src |-> SrcAt(sel), dsrc |-> DataSrcAt(sel)]
      [] kind = "nosrc"  -> [raises |-> FALSE, text |-> "", title |-> None,
                             src |-> "", dsrc |-> None]
      [] kind = "raises" -> [raises |-> TRUE, text |-> "", title |-> None,
                             src |-> None, dsrc |-> None]
      [] OTHER           -> [raises |-> FALSE, text |-> "", title |-> None,
                             src |-> None, dsrc |-> None]   \* "empty"

\* every document in which some of the selectors sels find an element of one
\* of the kinds
Docs(sels, kinds) ==
    UNION { { [sel \in S |-> Element(k[sel], sel)] : k \in [S -> kinds] } : S \in SUBSET sels }

Prefix(seq, n) == {seq[k] : k \in 1..(IF n < Len(seq) THEN n ELSE Len(seq))}

EmptyDoc == [sel \in {} |-> Element("empty", sel)]

HeadlineKinds == {"empty", "blank", "text"}
ImageKinds == {"empty", "nosrc", "src", "dsrc", "both"}

SourceNames == {NEWS_SOURCES[k].name : k \in DOMAIN NEWS_SOURCES}

\* the static and rendered outcomes of a whole get_news call
StaticWebs(name) ==
    { [outcome |-> "request_error", soup |-> EmptyDoc],
      [outcome |-> "error", soup |-> EmptyDoc] }
    \cup { [outcome |-> "ok", soup |-> h @@ i] :
             h \in Docs(Prefix(HEADLINE_SELECTORS[name], MaxLoc), {"empty", "text"}),
             i \in Docs(Prefix(IMAGE_SELECTORS[name], MaxLoc), {"empty", "src"}) }

FallbackHeadlines ==
    { [raises |-> TRUE, texts |-> <<>>], [raises |-> FALSE, texts |-> <<>>],
      [raises |-> FALSE, texts |-> <<"">>],
      [raises |-> FALSE, texts |-> <<"fallback headline">>] }

FallbackImages ==
    { [raises |-> TRUE, srcs |-> <<>>], [raises |-> FALSE, srcs |-> <<>>],
      [raises |-> FALSE, srcs |-> <<None, "https://cdn.example/pixel.gif">>],
      [raises |-> FALSE, srcs |-> <<"https://cdn.example/pixel.gif",
                                    "https://cdn.example/fallback.jpg">>] }

NoFallback == [raises |-> FALSE, texts |-> <<>>, srcs |-> <<>>]

RenderedWebs(name) ==
    { [fail |-> f, dom |-> EmptyDoc, fb_headline |-> NoFallback, fb_image |-> NoFallback] :
        f \in {"create", "get"} }
    \cup { [fail |-> "none", dom |-> h @@ i, fb_headline |-> fh, fb_image |-> fi] :
             h \in Docs(Prefix(HEADLINE_SELECTORS[name], MaxLoc), {"empty", "text"}),
             i \in Docs(Prefix(IMAGE_SELECTORS[name], MaxLoc), {"empty", "src"}),
             fh \in FallbackHeadlines, fi \in FallbackImages }

FieldNames == {"img", "title", "publisher", "price"}

FieldKinds(element_type) ==
    CASE element_type = "img"   -> {"empty", "nosrc", "src", "raises"}
      [] element_type = "price" -> {"empty", "blank", "text", "raises"}
      [] OTHER                  -> {"empty", "title", "text", "raises"}

\* a book (item container) by kind: "full" resolves every field at its first
\* selector, "alt" at its second, "bare" matches nothing, "stale" raises at
\* the title
Book(kind) ==
    CASE kind = "full" ->
            [sel \in {BOOK_SELECTORS[f][1] : f \in FieldNames} |->
                Element(IF sel = BOOK_SELECTORS.img[1] THEN "src" ELSE "text", sel)]
      [] kind = "alt" ->
            [sel \in {BOOK_SELECTORS[f][2] : f \in FieldNames} |->
                Element(IF sel = BOOK_SELECTORS.img[2] THEN "src" ELSE "text", sel)]
      [] kind = "stale" ->
            [sel \in {BOOK_SELECTORS.title[1]} |-> Element("raises", sel)]
      [] OTHER -> EmptyDoc

BookKinds == {"full", "alt", "bare", "stale"}

SeqsUpTo(S, n) == UNION { [1..m -> S] : m \in 1..n }

BookLists == { [k \in DOMAIN kinds |-> Book(kinds[k])] : kinds \in SeqsUpTo(BookKinds, MaxBooks) }

\* the pages get_international_books may meet: at most two of the container
\* selectors find anything
CatalogDoms ==
    UNION { [S -> BookLists] :
              S \in {T \in SUBSET Range(CONTAINER_SELECTORS) : Cardinality(T) <= 2} }

CatalogWebs ==
    { [fail |-> f, wait_timeout |-> FALSE, dom |-> EmptyDoc] : f \in {"create", "get"} }
    \cup { [fail |-> "none", wait_timeout |-> w, dom |-> d] :
             w \in BOOLEAN, d \in CatalogDoms }


\* no acquirer call in progress
NoCall == [kind |-> "none"]

(***************************************************************************)
(* The news loop on representative outcomes of every source                *)
(***************************************************************************)
StaticClasses == {"complete", "partial", "request_error", "error"}
RenderedClasses == {"complete", "partial", "nothing", "create_error", "get_error"}

StaticWebOf(name, class) ==
    LET h == [sel \in {HEADLINE_SELECTORS[name][1]} |-> Element("text", sel)]
        i == [sel \in {IMAGE_SELECTORS[name][1]} |-> Element("src", sel)]
    IN  CASE class = "complete" -> [outcome |-> "ok", soup |-> h @@ i]
          [] class = "partial"  -> [outcome |-> "ok", soup |-> h]
          [] OTHER              -> [outcome |-> class, soup |-> EmptyDoc]

RenderedWebOf(name, class) ==
    LET h == [sel \in {HEADLINE_SELECTORS[name][2]} |-> Element("text", sel)]
        i == [sel \in {IMAGE_SELECTORS[name][2]} |-> Element("dsrc", sel)]
        page(dom) == [fail |-> "none", dom |-> dom,
                      fb_headline |-> NoFallback, fb_image |-> NoFallback]
    IN  CASE class = "complete"     -> page(h @@ i)
          [] class = "partial"      -> page(h)
          [] class = "nothing"      -> page(EmptyDoc)
          [] class = "create_error" -> [page(EmptyDoc) EXCEPT !.fail = "create"]
          [] OTHER                  -> [page(EmptyDoc) EXCEPT !.fail = "get"]

NewsBatch ==
    /\ call = NoCall
    /\ \E classes \in [DOMAIN NEWS_SOURCES -> StaticClasses \X RenderedClasses] :
          LET webs == [k \in DOMAIN NEWS_SOURCES |->
                          [sweb |-> StaticWebOf(NEWS_SOURCES[k].name, classes[k][1]),
                           rweb |-> RenderedWebOf(NEWS_SOURCES[k].name, classes[k][2])]]
              out  == ScrapeNews(webs)
          IN  /\ call' = [kind |-> "batch", classes |-> classes, out |-> out]
              /\ alive' = alive + out.created - out.quit

(***************************************************************************)
(* scroll_and_collect, one loop iteration per step                         *)
(***************************************************************************)
\* page heights the browser may report
MaxHeight == 2
Heights == 0..MaxHeight

\* line 190-191; first_unchanged records the first iteration in which the
\* height measured after scrolling equalled the one before (0: none yet)
ScrollStart ==
    /\ call = NoCall
    /\ \E height \in Heights :
          call' = [kind |-> "scroll", last_height |-> height, scroll_count |-> 0,
                   running |-> WhileScrolling(0), first_unchanged |-> 0]

\* lines 195-206
ScrollIter ==
    /\ call.kind = "scroll"
    /\ call.running
    /\ \E new_height \in Heights :
          LET scroll_count == call.scroll_count + 1
              stop == ReachedBottom(new_height, call.last_height)
          IN  call' = [call EXCEPT
                  !.scroll_count = scroll_count,
                  !.last_height = IF stop THEN @ ELSE new_height,
                  !.running = ~stop /\ WhileScrolling(scroll_count),
                  !.first_unchanged =
                      IF @ = 0 /\ new_height = call.last_height THEN scroll_count ELSE @]

(***************************************************************************)
(* The acquirers called in isolation                                       *)
(***************************************************************************)
\* one static cascade of get_news over an arbitrary document
StaticCascadeCall ==
    /\ call = NoCall
    /\ \E name \in SourceNames :
        \/ \E soup \in Docs(Range(HEADLINE_SELECTORS[name]), HeadlineKinds) :
              call' = [kind |-> "static_headline", name |-> name,
                       sels |-> HEADLINE_SELECTORS[name], doc |-> soup,
                       value |-> StaticHeadline(name, soup)]
        \/ \E soup \in Docs(Range(IMAGE_SELECTORS[name]), ImageKinds) :
              call' = [kind |-> "static_image", name |-> name,
                       sels |-> IMAGE_SELECTORS[name], doc |-> soup,
                       value |-> StaticImage(name, soup)]

\* one cascade of get_news_with_selenium, before its fallback
SeleniumCascadeCall ==
    /\ call = NoCall
    /\ \E name \in SourceNames :
        \/ \E dom \in Docs(Range(HEADLINE_SELECTORS[name]), HeadlineKinds) :
              call' = [kind |-> "selenium_headline", name |-> name,
                       sels |-> HEADLINE_SELECTORS[name], doc |-> dom,
                       value |-> SeleniumHeadline(name, dom)]
        \/ \E dom \in Docs(Range(IMAGE_SELECTORS[name]), ImageKinds) :
              call' = [kind |-> "selenium_image", name |-> name,
                       sels |-> IMAGE_SELECTORS[name], doc |-> dom,
                       value |-> SeleniumImage(name, dom)]

\* process_book_elements on one book in which the selectors of one field
\* find arbitrary elements
BookCall ==
    /\ call = NoCall
    /\ \E element_type \in FieldNames :
        \E book \in Docs(Range(BOOK_SELECTORS[element_type]), FieldKinds(element_type)) :
            call' = [kind |-> "book", name |-> element_type,
                     sels |-> BOOK_SELECTORS[element_type], doc |-> book,
                     data |-> process_book_elements(<<book>>)]

\* get_news for one source
NewsCall ==
    /\ call = NoCall
    /\ \E k \in DOMAIN NEWS_SOURCES :
        \E sweb \in StaticWebs(NEWS_SOURCES[k].name), rweb \in RenderedWebs(NEWS_SOURCES[k].name) :
            LET out == get_news(NEWS_SOURCES[k].name, NEWS_SOURCES[k].url, sweb, rweb)
            IN  /\ call' = [kind |-> "get_news", source |-> NEWS_SOURCES[k],
                            sweb |-> sweb, rweb |-> rweb, out |-> out]
                /\ alive' = alive + out.created - out.quit

\* get_international_books
CatalogCall ==
    /\ call = NoCall
    /\ \E cweb \in CatalogWebs :
        LET out == get_international_books(cweb)
        IN  /\ call' = [kind |-> "catalog", cweb |-> cweb, out |-> out]
            /\ alive' = alive + out.created - out.quit

\* the answers of the GraphQL API and of the listing page a trending run may
\* meet: a media item is well formed, or has a null title or coverImage
TrendingMedia ==
    { [title |-> [null |-> t, romaji |-> r, english |-> None, native |-> "native"],
       coverImage |-> [null |-> c, large |-> None,
                       medium |-> "https://s4.anilist.co/medium.jpg"]] :
      t \in BOOLEAN, c \in BOOLEAN, r \in {None, "Frieren"} }

TrendingApis ==
    { [kind |-> "request_error", has_keys |-> FALSE, media |-> <<>>],
      [kind |-> "json", has_keys |-> FALSE, media |-> <<>>],
      [kind |-> "json", has_keys |-> TRUE, media |-> <<>>] }
    \cup { [kind |-> "json", has_keys |-> TRUE, media |-> m] :
              m \in SeqsUpTo(TrendingMedia, 2) }

TrendingPages ==
    { [ok |-> FALSE, cards |-> <<>>], [ok |-> TRUE, cards |-> <<>>] }
    \cup { [ok |-> TRUE, cards |-> <<[src |-> src, title |-> title]>>] :
              src \in {None, "//s4.anilist.co/cover/a.jpg"}, title \in {None, "Dandadan"} }

TrendingWebs == { [api |-> a, page |-> pg] : a \in TrendingApis, pg \in TrendingPages }

\* AniListScraper().run(use_api=True)
TrendingCall ==
    /\ call = NoCall
    /\ \E tweb \in TrendingWebs :
          call' = [kind |-> "trending", tweb |-> tweb, out |-> run(<<>>, tweb)]

\* run(use_api=True) once more on the same AniListScraper, the web
\* answering as before: self.results is what the first run left
TrendingRerun ==
    /\ call.kind = "trending"
    /\ ~call.out.raised
    /\ call' = [kind |-> "trending_rerun", tweb |-> call.tweb, first |-> call.out,
                count |-> use_graphql_api(call.out.results, call.tweb.api).count,
                out |-> run(call.out.results, call.tweb)]

\* the caller takes the result; the next call starts from there
CallReturn ==
    /\ call # NoCall
    /\ call.kind = "scroll" => ~call.running
    /\ call' = NoCall

NextAcq ==
    \/ CallReturn /\ UNCHANGED <<alive, apiVars>>
    \/ StaticCascadeCall /\ UNCHANGED <<alive, apiVars>>
    \/ SeleniumCascadeCall /\ UNCHANGED <<alive, apiVars>>
    \/ BookCall /\ UNCHANGED <<alive, apiVars>>
    \/ NewsCall /\ UNCHANGED apiVars
    \/ CatalogCall /\ UNCHANGED apiVars
    \/ NewsBatch /\ UNCHANGED apiVars
    \/ ScrollStart /\ UNCHANGED <<alive, apiVars>>
    \/ ScrollIter /\ UNCHANGED <<alive, apiVars>>
    \/ TrendingCall /\ UNCHANGED <<alive, apiVars>>
    \/ TrendingRerun /\ UNCHANGED <<alive, apiVars>>

Init ==
    /\ now = 0
    /\ workbooks = {}
    /\ anime_json = [exists |-> FALSE]
    /\ last = [op |-> "none"]
    /\ call = NoCall
    /\ alive = 0

SpecAcq == Init /\ [][NextAcq]_vars


(***************************************************************************)
(* The API handlers (src/app.py), one request per step                     *)
(***************************************************************************)
\* seconds between two readings of the clock, and the last reading
MaxTicks == 3
\* workbooks kept in RESULTS_DIR
MaxFiles == 2

\* what the web answers during one request
ApiNewsWebs ==
    { [k \in DOMAIN NEWS_SOURCES |->
          [sweb |-> StaticWebOf(NEWS_SOURCES[k].name, c[1]),
           rweb |-> RenderedWebOf(NEWS_SOURCES[k].name, c[2])]] :
      c \in {<<"complete", "complete">>, <<"request_error", "get_error">>} }

ApiCatalogWebs ==
    { [fail |-> "create", wait_timeout |-> FALSE, dom |-> EmptyDoc],
      [fail |-> "none", wait_timeout |-> TRUE,
       dom |-> [sel \in {CONTAINER_SELECTORS[2]} |-> <<Book("full"), Book("bare")>>]] }

NoPage == [ok |-> FALSE, cards |-> <<>>]
Media(romaji, null) ==
    [title |-> [null |-> null, romaji |-> romaji, english |-> None, native |-> "native"],
     coverImage |-> [null |-> FALSE, large |-> None, medium |-> "https://s4.anilist.co/medium.jpg"]]

ApiTrendingWebs ==
    { [api |-> [kind |-> "json", has_keys |-> TRUE, media |-> <<Media("Frieren", FALSE)>>],
       page |-> NoPage],
      [api |-> [kind |-> "request_error", has_keys |-> FALSE, media |-> <<>>],
       page |-> [ok |-> TRUE,
                 cards |-> <<[src |-> "//s4.anilist.co/cover/a.jpg", title |-> "Dandadan"]>>]],
      [api |-> [kind |-> "request_error", has_keys |-> FALSE, media |-> <<>>],
       page |-> NoPage],
      [api |-> [kind |-> "json", has_keys |-> TRUE, media |-> <<Media("Frieren", TRUE)>>],
       page |-> NoPage] }

\* what the acquirers return on them (a new AniListScraper starts with no
\* results)
ApiNewsOuts == {ScrapeNews(webs) : webs \in ApiNewsWebs}
ApiCatalogOuts == {get_international_books(cweb) : cweb \in ApiCatalogWebs}
ApiTrendingOuts == {run(<<>>, tweb) : tweb \in ApiTrendingWebs}

ServerError == [error |-> "unexpected"]

\* GET /api/news (src/app.py:26-72)
get_news_data ==
    /\ \E out \in ApiNewsOuts :
              IF workbooks # {} /\ IsFresh(LatestFile(workbooks).mtime, NEWS_TTL)
              THEN /\ last' = [op |-> "get_news", at |-> now, code |-> 200,
                               body |-> ReadSheet(LatestFile(workbooks).news),
                               invoked |-> {}]
                   /\ alive' = alive
              ELSE /\ last' = [op |-> "get_news", at |-> now, code |-> 200,
                               body |-> out.news_data, invoked |-> {"news"}]
                   /\ alive' = alive + out.created - out.quit
    /\ UNCHANGED <<now, workbooks, anime_json, call>>

\* GET /api/books (src/app.py:74-104)
get_books_data ==
    /\ \E out \in ApiCatalogOuts :
              IF workbooks # {} /\ IsFresh(LatestFile(workbooks).mtime, BOOKS_TTL)
              THEN /\ last' = [op |-> "get_books", at |-> now, code |-> 200,
                               body |-> ReadSheet(LatestFile(workbooks).books),
                               invoked |-> {}]
                   /\ alive' = alive
              ELSE /\ last' = [op |-> "get_books", at |-> now, code |-> 200,
                               body |-> out.data, invoked |-> {"books"},
                               books_exit |-> out.exit]
                   /\ alive' = alive + out.created - out.quit
    /\ UNCHANGED <<now, workbooks, anime_json, call>>

\* GET /api/anime (src/app.py:106-138): a new AniListScraper per request
get_anime_data ==
    /\ \E out \in ApiTrendingOuts :
          LET after == AnimeJsonAfter(out)
          IN  IF anime_json.exists /\ IsFresh(anime_json.mtime, ANIME_TTL)
              THEN /\ last' = [op |-> "get_anime", at |-> now, code |-> 200,
                               body |-> anime_json.data, invoked |-> {}]
                   /\ anime_json' = anime_json
              ELSE /\ last' = [op |-> "get_anime", at |-> now,
                               code |-> IF out.raised THEN 500 ELSE 200,
                               body |-> IF out.raised THEN ServerError
                                        ELSE IF after.exists THEN after.data ELSE <<>>,
                               invoked |-> {"anime"}]
                   /\ anime_json' = after
    /\ UNCHANGED <<now, workbooks, call, alive>>

\* POST /api/scrape-all (src/app.py:140-187); the workbook is named after the
\* time of the request, so a second request in the same second rewrites it
scrape_all ==
    /\ Cardinality(workbooks) < MaxFiles \/ \E f \in workbooks : f.mtime = now
    /\ \E news \in ApiNewsOuts, books \in ApiCatalogOuts, anime \in ApiTrendingOuts :
              /\ workbooks' = {f \in workbooks : f.mtime # now}
                              \cup {[mtime |-> now, news |-> news.news_data,
                                     books |-> books.data,
                                     books_columns |-> DataFrameColumns(books.data)]}
              /\ anime_json' = AnimeJsonAfter(anime)
              /\ alive' = alive + news.created - news.quit + books.created - books.quit
              /\ last' = [op |-> "scrape_all", at |-> now,
                          code |-> IF anime.raised THEN 500 ELSE 200,
                          body |-> IF anime.raised THEN ServerError
                                   ELSE [status |-> "success",
                                         news_count |-> Len(news.news_data),
                                         books_count |-> Len(books.data),
                                         anime_count |-> Len(anime.results)],
                          invoked |-> {"news", "books", "anime"},
                          books_exit |-> books.exit,
                          results |-> [news |-> news.news_data, books |-> books.data,
                                       anime |-> anime.results]]
    /\ UNCHANGED <<now, call>>

\* time passes between requests
Tick ==
    /\ now < MaxTicks * NEWS_TTL
    /\ now' = now + NEWS_TTL
    /\ UNCHANGED <<workbooks, anime_json, last, call, alive>>

\* datetime.fromtimestamp(t).strftime("%Y-%m-%d %H:%M:%S"): the time to the
\* second, as text
strftime(t) == ToString(t)

\* GET /api/status (src/app.py:189-219)
get_status ==
    /\ last' = [op |-> "get_status", at |-> now, code |-> 200,
                body |-> [status |-> "online",
                          data_available |-> [news  |-> workbooks # {},
                                              books |-> workbooks # {},
                                              anime |-> anime_json.exists],
                          last_update |-> IF workbooks # {}
                                          THEN strftime(LatestFile(workbooks).mtime)
                                          ELSE None],
                invoked |-> {}]
    /\ UNCHANGED <<now, workbooks, anime_json, call, alive>>

Next ==
    \/ get_news_data
    \/ get_books_data
    \/ get_anime_data
    \/ scrape_all
    \/ get_status
    \/ Tick

Spec == Init /\ [][Next]_vars

(***************************************************************************)
(* The batch entry point (main, src/main.py:640-717) and the forced        *)
(* refresh (scrape_all, src/app.py:140-187) step by step: one step per     *)
(* news source, one for the catalog, one for the workbook, and the         *)
(* trending run item by item.  call holds the locals of the running job.   *)
(* Jobs follow one another within one second of the clock, so that each    *)
(* replaces the workbook of the one before.                                *)
(***************************************************************************)
Entries == {"main", "scrape_all"}

\* what one source answers during a job
JobNewsClasses == {<<"complete", "complete">>, <<"request_error", "get_error">>}

JobTrendingWebs ==
    ApiTrendingWebs
    \cup { [api |-> [kind |-> "json", has_keys |-> TRUE,
                     media |-> <<Media("Frieren", FALSE), Media("Dandadan", null)>>],
            page |-> NoPage] : null \in BOOLEAN }
    \cup { [api |-> [kind |-> "json", has_keys |-> FALSE, media |-> <<>>],
            page |-> [ok |-> TRUE, cards |-> <<>>]] }

\* for source in NEWS_SOURCES: the loop has run out of sources
NewsLoopDone_AfterFirst(news_data) == Len(news_data) >= 1

NewsLoopDone(news_data) == Len(news_data) = Len(NEWS_SOURCES)

\* timestamp = datetime.now()...; news_data = []
JobStart ==
    /\ call = NoCall
    /\ \E entry \in Entries :
          call' = [kind |-> "job", entry |-> entry, pc |-> "news", timestamp |-> now,
                   news_data |-> <<>>, book_data |-> <<>>, books_returned |-> FALSE,
                   tweb |-> NoCall, next |-> 0, results |-> <<>>,
                   written |-> 0, saved |-> 0, raised |-> FALSE]
    /\ UNCHANGED <<now, workbooks, anime_json, last, alive>>

\* one iteration of the news loop
JobNews ==
    /\ call.kind = "job" /\ call.pc = "news"
    /\ \E c \in JobNewsClasses :
          LET source == NEWS_SOURCES[Len(call.news_data) + 1]
              out == get_news(source.name, source.url,
                              StaticWebOf(source.name, c[1]),
                              RenderedWebOf(source.name, c[2]))
              news_data == Append(call.news_data, out.result)
          IN  /\ call' = [call EXCEPT !.news_data = news_data,
                                      !.pc = IF NewsLoopDone(news_data) THEN "books" ELSE "news"]
              /\ alive' = alive + out.created - out.quit
    /\ UNCHANGED <<now, workbooks, anime_json, last>>

\* book_data = get_international_books()
JobBooks ==
    /\ call.kind = "job" /\ call.pc = "books"
    /\ \E out \in ApiCatalogOuts :
          /\ call' = [call EXCEPT !.book_data = out.data, !.books_returned = TRUE,
                                  !.pc = "write"]
          /\ alive' = alive + out.created - out.quit
    /\ UNCHANGED <<now, workbooks, anime_json, last>>

\* with pd.ExcelWriter(excel_filename, ...) as writer: the file is named by
\* the timestamp taken at the start
JobWrite ==
    /\ call.kind = "job" /\ call.pc = "write"
    /\ workbooks' = {f \in workbooks : f.mtime # call.timestamp}
                    \cup {[mtime |-> call.timestamp, news |-> call.news_data,
                           books |-> call.book_data,
                           books_columns |-> IF call.entry = "main"
                                             THEN MainBooksColumns(call.book_data)
                                             ELSE DataFrameColumns(call.book_data)]}
    /\ call' = [call EXCEPT !.written = @ + 1, !.pc = "anime_api"]
    /\ UNCHANGED <<now, anime_json, last, alive>>

\* anime_scraper = AniListScraper(); run: the request of use_graphql_api
JobAnimeApi ==
    /\ call.kind = "job" /\ call.pc = "anime_api"
    /\ \E tweb \in JobTrendingWebs :
          call' = [call EXCEPT !.tweb = tweb, !.next = 1,
                               !.pc = IF tweb.api.kind = "json" /\ tweb.api.has_keys
                                      THEN "anime_loop" ELSE "anime_html"]
    /\ UNCHANGED <<now, workbooks, anime_json, last, alive>>

\* one iteration of the loop of use_graphql_api, or its end: count > 0
\* goes on to the save, count = 0 to the fallback
JobAnimeItem ==
    /\ call.kind = "job" /\ call.pc = "anime_loop"
    /\ LET media == call.tweb.api.media
       IN  IF call.next > Len(media)
           THEN call' = [call EXCEPT !.pc = IF Len(call.results) > 0 THEN "anime_save"
                                            ELSE "anime_html"]
           ELSE IF MediaRaises(media[call.next])
           THEN call' = [call EXCEPT !.raised = TRUE, !.pc = "done"]
           ELSE call' = [call EXCEPT !.results = Append(@, MediaEntry(media[call.next])),
                                     !.next = @ + 1]
    /\ UNCHANGED <<now, workbooks, anime_json, last, alive>>

\* html_content = self.fetch_page(); self.extract_data_from_html(html_content)
JobAnimeHtml ==
    /\ call.kind = "job" /\ call.pc = "anime_html"
    /\ call' = [call EXCEPT !.results = extract_data_from_html(@, call.tweb.page),
                            !.pc = "anime_save"]
    /\ UNCHANGED <<now, workbooks, anime_json, last, alive>>

\* if self.results: self.save_to_json()
JobAnimeSave ==
    /\ call.kind = "job" /\ call.pc = "anime_save"
    /\ IF Len(call.results) > 0
       THEN /\ anime_json' = [exists |-> TRUE, mtime |-> now, data |-> call.results]
            /\ call' = [call EXCEPT !.saved = @ + 1, !.pc = "done"]
       ELSE /\ anime_json' = anime_json
            /\ call' = [call EXCEPT !.pc = "done"]
    /\ UNCHANGED <<now, workbooks, last, alive>>

\* the job returns (main) or answers (scrape_all)
JobEnd ==
    /\ call.kind = "job" /\ call.pc = "done"
    /\ call' = NoCall
    /\ last' = IF call.entry = "main" THEN last
               ELSE [op |-> "scrape_all", at |-> call.timestamp,
                     code |-> IF call.raised THEN 500 ELSE 200,
                     body |-> IF call.raised THEN ServerError
                              ELSE [status |-> "success",
                                    news_count |-> Len(call.news_data),
                                    books_count |-> Len(call.book_data),
                                    anime_count |-> Len(call.results)],
                     invoked |-> {"news", "books", "anime"}]
    /\ UNCHANGED <<now, workbooks, anime_json, alive>>

NextJob ==
    \/ JobStart
    \/ JobNews
    \/ JobBooks
    \/ JobWrite
    \/ JobAnimeApi
    \/ JobAnimeItem
    \/ JobAnimeHtml
    \/ JobAnimeSave
    \/ JobEnd

SpecJob == Init /\ [][NextJob]_vars

(***************************************************************************)
(* Requests handled concurrently (the server of src/app.py:222 handles     *)
(* each request in its own thread): save_to_json (src/main.py:596-600),    *)
(* run by a forced refresh or by a GET /api/anime that missed, step by     *)
(* step, while another GET /api/anime reads the file (src/app.py:113-121). *)
(* No lock is taken anywhere in src/.  call holds the writer's progress;   *)
(* anime_json.complete tells whether the text in the file is a whole JSON  *)
(* document.                                                               *)
(***************************************************************************)
\* the result lists a run may save
SavedResults == {out.results : out \in {o \in {run(<<>>, tweb) : tweb \in JobTrendingWebs} : o.saved}}

\* with open(..., "w") as f: the file is created or truncated
save_to_json_open ==
    /\ call = NoCall
    /\ \E results \in SavedResults :
          /\ call' = [kind |-> "save_to_json", results |-> results, written |-> 0]
          /\ anime_json' = [exists |-> TRUE, mtime |-> now, data |-> <<>>,
                            complete |-> FALSE]
    /\ UNCHANGED <<now, workbooks, last, alive>>

\* json.dump(self.results, f, ...): the text reaches the file piece by piece
save_to_json_dump ==
    /\ call.kind = "save_to_json"
    /\ call.written < Len(call.results)
    /\ call' = [call EXCEPT !.written = @ + 1]
    /\ anime_json' = [anime_json EXCEPT !.data = Append(@, call.results[call.written + 1]),
                                        !.mtime = now]
    /\ UNCHANGED <<now, workbooks, last, alive>>

\* leaving the with block: the closing bracket is written, the file closed
save_to_json_close ==
    /\ call.kind = "save_to_json"
    /\ call.written = Len(call.results)
    /\ call' = NoCall
    /\ anime_json' = [anime_json EXCEPT !.complete = TRUE, !.mtime = now]
    /\ UNCHANGED <<now, workbooks, last, alive>>

\* GET /api/anime on its cached path (src/app.py:113-121), at any moment of
\* the writer: json.load of an incomplete document raises, and the handler
\* answers 500 (src/app.py:136-138)
read_anime_json ==
    /\ anime_json.exists
    /\ IsFresh(anime_json.mtime, ANIME_TTL)
    /\ last' = IF anime_json.complete
               THEN [op |-> "get_anime", at |-> now, code |-> 200,
                     body |-> anime_json.data, invoked |-> {}]
               ELSE [op |-> "get_anime", at |-> now, code |-> 500,
                     body |-> ServerError, invoked |-> {}]
    /\ UNCHANGED <<now, workbooks, anime_json, call, alive>>

ConcTick ==
    /\ now < MaxTicks * NEWS_TTL
    /\ now' = now + NEWS_TTL
    /\ UNCHANGED <<workbooks, anime_json, last, call, alive>>

NextConc ==
    \/ save_to_json_open
    \/ save_to_json_dump
    \/ save_to_json_close
    \/ read_anime_json
    \/ ConcTick

SpecConc == Init /\ [][NextConc]_vars

(***************************************************************************)
(* Properties of the acquirers (checked under SpecAcq)                     *)
(***************************************************************************)
IsNewsRecordOf(r, source) ==
    /\ r.Media = capitalize(source.name)
    /\ r.URL = source.url
    /\ ~Falsy(r.Media) /\ ~Falsy(r.URL)
    /\ ~Falsy(r.Headline) /\ ~Falsy(r.Image)

\* C1: whatever the static and rendered outcomes of each source, the batch
\* holds exactly one record per configured source, in configuration order,
\* each with non-empty Headline, Image, Media and URL, Media and URL being
\* those of the source's configuration.
C1_OneCompleteRecordPerSource ==
    /\ call.kind = "batch" =>
          /\ Len(call.out.news_data) = Len(NEWS_SOURCES)
          /\ \A k \in DOMAIN NEWS_SOURCES :
                IsNewsRecordOf(call.out.news_data[k], NEWS_SOURCES[k])
    /\ call.kind = "get_news" => IsNewsRecordOf(call.out.result, call.source)

C1_Witness ==
    /\ call.kind = "batch"
    /\ call.classes[1] = <<"request_error", "get_error">>
    /\ call.classes[2] = <<"complete", "complete">>
    /\ call.classes[3] = <<"partial", "nothing">>
    /\ Len(call.out.news_data) = 3

StaticComplete(c) ==
    /\ c.sweb.outcome = "ok"
    /\ ~Falsy(StaticHeadline(c.source.name, c.sweb.soup))
    /\ ~Falsy(StaticImage(c.source.name, c.sweb.soup))

\* C5: when the static fetch resolves both headline and image, the rendered
\* fetcher is not invoked (and no browser is created); it is invoked only
\* after a static transport error or an incomplete static result.
C5_RenderedOnlyOnDemand ==
    call.kind = "get_news" =>
        /\ StaticComplete(call) =>
              /\ call.out.calls = <<"static">>
              /\ call.out.created = 0
        /\ "selenium" \in Range(call.out.calls) =>
              \/ call.sweb.outcome = "request_error"
              \/ call.sweb.outcome = "ok" /\ ~StaticComplete(call)

C5_Witness ==
    /\ call.kind = "get_news"
    /\ StaticComplete(call)
    /\ call.rweb.fail = "none"
    /\ call.out.calls = <<"static">>

\* C17: for each source the static fetch is attempted once and first, the
\* rendered fetch at most once and after it, and one record is returned; a
\* static transport failure always leads to a rendered attempt, and the
\* record returned is then the one the rendered fetch produced.
C17_StaticThenRendered ==
    /\ call.kind = "get_news" =>
          /\ call.out.calls \in {<<"static">>, <<"static", "selenium">>}
          /\ IsNewsRecordOf(call.out.result, call.source)
          /\ call.sweb.outcome = "request_error" =>
                /\ call.out.calls = <<"static", "selenium">>
                /\ call.out.result =
                      get_news_with_selenium(call.source.name, call.source.url,
                                             call.rweb).result
          /\ call.sweb.outcome = "error" => call.out.calls = <<"static">>
    /\ call.kind = "batch" =>
          /\ Len(call.out.calls) = Len(NEWS_SOURCES)
          /\ Len(call.out.news_data) = Len(NEWS_SOURCES)
          /\ \A k \in DOMAIN NEWS_SOURCES :
                /\ call.out.calls[k] \in {<<"static">>, <<"static", "selenium">>}
                /\ call.classes[k][1] = "request_error" =>
                      call.out.calls[k] = <<"static", "selenium">>

C17_Witness ==
    /\ call.kind = "get_news"
    /\ call.sweb.outcome = "request_error"
    /\ call.rweb.fail = "none"
    /\ call.out.calls = <<"static", "selenium">>
    /\ call.out.result.Headline = TextAt(HEADLINE_SELECTORS[call.source.name][1])
    /\ call.out.created = 1

\* C6 (as claimed): when the static fetch raises a transport error and the
\* rendered fetch fails too, the record holds the fixed not-found headline
\* and image strings, with media and url from the configuration.
C6_SentinelOnDoubleFailure ==
    ( /\ call.kind = "get_news"
      /\ call.sweb.outcome = "request_error"
      /\ call.rweb.fail # "none" ) =>
        /\ call.out.result.Headline = HEADLINE_NOT_FOUND
        /\ call.out.result.Image = IMAGE_NOT_FOUND
        /\ call.out.result.Media = capitalize(call.source.name)
        /\ call.out.result.URL = call.source.url

\* C7: the scroll loop never performs more than max_scrolls iterations; it
\* keeps running only while no iteration left the height unchanged, and once
\* stopped it has performed exactly k iterations when the k-th was the first
\* unchanged one, or max_scrolls when there was none.
C7_ScrollStopsAtFirstStableOrCap ==
    call.kind = "scroll" =>
        /\ call.scroll_count <= max_scrolls
        /\ call.running => call.first_unchanged = 0 /\ call.scroll_count < max_scrolls
        /\ ~call.running =>
              \/ call.first_unchanged = call.scroll_count /\ call.scroll_count >= 1
              \/ call.first_unchanged = 0 /\ call.scroll_count = max_scrolls

C7_Witness ==
    /\ call.kind = "scroll"
    /\ ~call.running
    /\ call.first_unchanged = 0
    /\ call.scroll_count = max_scrolls

IsCascade(c) ==
    c.kind \in {"static_headline", "static_image", "selenium_headline",
                "selenium_image", "book"}

\* the value a cascade reads from the element found by its k-th selector
ValueAt(c, k) ==
    LET element == c.doc[c.sels[k]]
    IN  CASE c.kind \in {"static_headline", "selenium_headline"} -> Strip(element.text)
          [] c.kind \in {"static_image", "selenium_image"} -> Or(element.src, element.dsrc)
          [] OTHER -> Extract(c.name, element)

\* the selectors (by position) that find an element, and those whose element
\* yields a non-empty value
Matching(c) == {k \in DOMAIN c.sels : HasMatch(c.doc, c.sels[k])}
Yielding(c) == {k \in Matching(c) : ~c.doc[c.sels[k]].raises /\ ~Falsy(ValueAt(c, k))}
Lowest(S) == CHOOSE k \in S : \A j \in S : k <= j

\* the call produced a value (a book that raised is skipped)
HasValue(c) == IsCascade(c) /\ (c.kind = "book" => Len(c.data) = 1)

BookFieldOf(r, element_type) ==
    CASE element_type = "img"       -> r.ImageURL
      [] element_type = "title"     -> r.Judul
      [] element_type = "publisher" -> r.Penerbit
      [] OTHER                      -> r.Harga

Resolved(c) == IF c.kind = "book" THEN BookFieldOf(c.data[1], c.name) ELSE c.value

\* C8 (as claimed): the resolved value is the value of the first selector in
\* list order that finds an element; no later selector can replace it.
C8_FirstMatchWins ==
    (HasValue(call) /\ Matching(call) # {}) =>
        Resolved(call) = ValueAt(call, Lowest(Matching(call)))

\* C8 (amended): a resolved non-empty value is the value of the first
\* selector in list order whose element yields a non-empty value.  In the
\* static headline cascade the first selector that finds an element ends the
\* cascade, whatever its text; in every other cascade an element yielding an
\* empty value is passed over and the first non-empty value wins.
C8_FirstNonEmptyWins ==
    HasValue(call) =>
        /\ (Matching(call) # {} /\ ~Falsy(Resolved(call))) =>
              /\ Yielding(call) # {}
              /\ Resolved(call) = ValueAt(call, Lowest(Yielding(call)))
        /\ (call.kind = "static_headline" /\ Matching(call) # {}) =>
              Resolved(call) = ValueAt(call, Lowest(Matching(call)))
        /\ (call.kind # "static_headline" /\ Yielding(call) # {}) =>
              Resolved(call) = ValueAt(call, Lowest(Yielding(call)))

C8_Witness ==
    /\ call.kind = "static_image"
    /\ Yielding(call) # {}
    /\ Cardinality(Yielding(call)) >= 2
    /\ Lowest(Matching(call)) < Lowest(Yielding(call))
    /\ call.value = ValueAt(call, Lowest(Yielding(call)))

\* C18 (as claimed): in the headline and image cascades of the static and
\* of the rendered path, a selector whose element yields an empty value does
\* not end the cascade: the value is that of the first selector yielding a
\* non-empty value, and empty when there is none.
C18_EmptyValueDoesNotEnd ==
    call.kind \in {"static_headline", "static_image",
                   "selenium_headline", "selenium_image"} =>
        IF Yielding(call) # {}
        THEN call.value = ValueAt(call, Lowest(Yielding(call)))
        ELSE Falsy(call.value)

\* C9: no browser instance outlives the call that created it: every call of
\* the rendered news fetch or of catalog acquisition quits the browser it
\* created, on the return, early-return and exception paths alike.
C9_BrowserAlwaysQuit ==
    /\ alive = 0
    /\ call.kind \in {"get_news", "catalog", "batch"} =>
          call.out.quit = call.out.created

C9_Witness ==
    /\ call.kind = "catalog"
    /\ call.out.exit = "early_return"
    /\ call.cweb.wait_timeout
    /\ call.out.created = 1
    /\ call.out.quit = 1

\* C10 (as claimed): every field of every catalog record is a non-empty
\* value or "N/A", never null or the empty string.
C10_NoEmptyCatalogField ==
    call.kind = "book" =>
        \A k \in DOMAIN call.data :
            \A element_type \in FieldNames :
                ~Falsy(BookFieldOf(call.data[k], element_type))

(***************************************************************************)
(* Properties of the API (checked under Spec)                              *)
(***************************************************************************)
\* a step that handles a request op
Handles(op) == last'.op = op /\ last' # last

\* C2: a GET is answered from the newest artifact of its category, without
\* invoking an acquirer, exactly when that artifact exists and is younger
\* than the category's TTL (news 3600 s, catalog 7200 s, trending 10800 s);
\* otherwise the category's acquirer is invoked.  Only the most recently
\* modified workbook decides and is served.
C2_FreshnessGate ==
    [][ /\ Handles("get_news") =>
              IF workbooks # {} /\ now - LatestFile(workbooks).mtime < 3600
              THEN /\ last'.invoked = {}
                   /\ last'.body = ReadSheet(LatestFile(workbooks).news)
              ELSE last'.invoked = {"news"}
        /\ Handles("get_books") =>
              IF workbooks # {} /\ now - LatestFile(workbooks).mtime < 7200
              THEN /\ last'.invoked = {}
                   /\ last'.body = ReadSheet(LatestFile(workbooks).books)
              ELSE last'.invoked = {"books"}
        /\ Handles("get_anime") =>
              IF anime_json.exists /\ now - anime_json.mtime < 10800
              THEN /\ last'.invoked = {}
                   /\ last'.body = anime_json.data
              ELSE last'.invoked = {"anime"}
      ]_vars

C2_Witness ==
    /\ last.op = "get_books"
    /\ last.at = now
    /\ last.invoked = {}
    /\ Cardinality(workbooks) = 2
    /\ now - LatestFile(workbooks).mtime = 3600
    /\ last.body = ReadSheet(LatestFile(workbooks).books)
    /\ \E f \in workbooks : f.books # LatestFile(workbooks).books

\* C3 (as claimed): a GET that missed the cache leaves an artifact of its
\* category, written by that request, that holds what the request returned.
C3_MissPersistsResult ==
    (last.op \in {"get_news", "get_books", "get_anime"} /\ last.invoked # {}
        /\ last.code = 200) =>
        CASE last.op = "get_news" ->
                \E f \in workbooks : f.mtime = last.at /\ ReadSheet(f.news) = last.body
          [] last.op = "get_books" ->
                \E f \in workbooks : f.mtime = last.at /\ ReadSheet(f.books) = last.body
          [] OTHER ->
                /\ anime_json.exists
                /\ anime_json.mtime = last.at
                /\ anime_json.data = last.body

\* C4 (as claimed): a forced refresh invokes the three acquirers and leaves
\* the artifact of every category holding that call's results.
C4_ForcedRefreshOverwritesAll ==
    last.op = "scrape_all" =>
        /\ last.invoked = {"news", "books", "anime"}
        /\ \E f \in workbooks :
              /\ f.mtime = last.at
              /\ f.news = last.results.news
              /\ f.books = last.results.books
        /\ anime_json.exists
        /\ anime_json.mtime = last.at
        /\ anime_json.data = last.results.anime

\* C11: when no container selector finds any item container, catalog
\* acquisition returns the empty list through its early return (nothing is
\* raised to the caller), has saved the page source, and has quit the
\* browser it created.
C11_NoContainersEmptyResult ==
    (call.kind = "catalog" /\ call.cweb.fail = "none"
        /\ \A k \in DOMAIN CONTAINER_SELECTORS :
              find_elements(call.cweb.dom, CONTAINER_SELECTORS[k]) = <<>>) =>
        /\ call.out.data = <<>>
        /\ call.out.exit = "early_return"
        /\ call.out.page_source_saved
        /\ call.out.created = 1
        /\ call.out.quit = 1

C11_Witness ==
    /\ call.kind = "catalog"
    /\ call.cweb.fail = "none"
    /\ call.cweb.dom = EmptyDoc
    /\ ~call.cweb.wait_timeout
    /\ call.out.data = <<>>
    /\ call.out.page_source_saved

\* the primary path of a trending run left no entry: transport failure,
\* missing keys, no media, or a first media item that cannot be read
PrimaryYieldsNothing(tweb) ==
    \/ tweb.api.kind = "request_error"
    \/ ~tweb.api.has_keys
    \/ MediaEntriesFrom(tweb.api.media, 1) = <<>>

\* C12 (as claimed): whenever the primary path yields no entry, malformed
\* media items included, the run does not raise and its results are those
\* of the fallback scrape of the listing page.
C12_MalformedFallsBack ==
    (call.kind = "trending" /\ PrimaryYieldsNothing(call.tweb)) =>
        /\ ~call.out.raised
        /\ call.out.results = extract_data_from_html(<<>>, call.tweb.page)

\* C13 (as claimed): when catalog acquisition is aborted by an error, GET
\* catalog answers with an error and not with 200 and a list, and a forced
\* refresh leaves no workbook written by the failed run.
C13_CatalogFailureSurfaced ==
    /\ (last.op = "get_books" /\ last.invoked = {"books"} /\ last.books_exit = "except") =>
          last.code # 200
    /\ (last.op = "scrape_all" /\ last.books_exit = "except") =>
          ~\E f \in workbooks : f.mtime = last.at /\ f.books = <<>>

\* C14 (as claimed): what a forced refresh persisted reads back, through the
\* reader of the GET handlers, identical to the in-memory results: the two
\* sheets of the workbook it wrote, and the trending JSON when it was saved.
C14_RoundTripIdentity ==
    last.op = "scrape_all" =>
        /\ \A f \in workbooks :
              f.mtime = last.at =>
                 /\ ReadSheet(f.news) = last.results.news
                 /\ ReadSheet(f.books) = last.results.books
        /\ (anime_json.exists /\ anime_json.mtime = last.at) =>
              anime_json.data = last.results.anime

\* C16 (as claimed): GET status tells for each category whether an artifact
\* exists, and the timestamp it reports for trending is that of the
\* trending JSON, non-null whenever that file exists.
C16_StatusPerCategory ==
    last.op = "get_status" =>
        /\ last.body.data_available.news = (workbooks # {})
        /\ last.body.data_available.books = (workbooks # {})
        /\ last.body.data_available.anime = anime_json.exists
        /\ anime_json.exists =>
              /\ last.body.last_update # None
              /\ last.body.last_update = strftime(anime_json.mtime)

(***************************************************************************)
(* Properties of the batch entry point and the forced refresh (checked     *)
(* under SpecJob)                                                          *)
(***************************************************************************)
\* C15 (as claimed): every workbook written with an empty catalog result has
\* a "Gramedia Books" sheet whose header row is Judul, Penerbit, Harga,
\* Image URL.
C15_EmptyCatalogHeaderOnly ==
    \A f \in workbooks :
        f.books = <<>> => f.books_columns = <<"Judul", "Penerbit", "Harga", "Image URL">>

\* a step of a running job that writes the workbook
WritesWorkbook ==
    \/ workbooks' # workbooks
    \/ call.kind = "job" /\ call'.kind = "job" /\ call'.written # call.written

\* C20: the workbook is written once per job, after every configured news
\* source has produced its record and the catalog acquisition has returned,
\* and holds those results; the trending JSON is written at most once, and
\* only with the complete result list of the run.
C20_PersistAfterExtraction ==
    [][ /\ WritesWorkbook =>
              /\ call.kind = "job"
              /\ Len(call.news_data) = Len(NEWS_SOURCES)
              /\ \A k \in DOMAIN NEWS_SOURCES :
                    call.news_data[k].URL = NEWS_SOURCES[k].url
              /\ call.books_returned
              /\ call.written = 0
              /\ call'.written = 1
              /\ \E f \in workbooks' :
                    /\ f.mtime = call.timestamp
                    /\ f.news = call.news_data
                    /\ f.books = call.book_data
        /\ anime_json' # anime_json =>
              /\ call.kind = "job"
              /\ call.written = 1
              /\ call.saved = 0
              /\ ~run(<<>>, call.tweb).raised
              /\ anime_json'.data = run(<<>>, call.tweb).results
        /\ (call.kind = "job" /\ call' = NoCall) =>
              /\ call.written = 1
              /\ call.saved <= 1
      ]_vars

C20_Witness ==
    /\ call.kind = "job"
    /\ call.entry = "scrape_all"
    /\ call.pc = "done"
    /\ call.written = 1
    /\ call.saved = 1
    /\ Len(call.results) = 2
    /\ anime_json.data = call.results
    /\ \E f \in workbooks : f.news = call.news_data /\ f.books = call.book_data

\* C19 (as claimed): when the trending run of a job has completed without
\* raising, the trending JSON holds exactly the result list of that run,
\* also when the run extracted nothing.
C19_TrendingReplacedWholesale ==
    (call.kind = "job" /\ call.pc = "done" /\ ~call.raised) =>
        /\ anime_json.exists
        /\ anime_json.data = call.results

(***************************************************************************)
(* Further properties of the acquirers (checked under SpecAcq)             *)
(***************************************************************************)
\* the container selectors (by position) that find at least one element
Finding(dom) ==
    {k \in DOMAIN CONTAINER_SELECTORS : find_elements(dom, CONTAINER_SELECTORS[k]) # <<>>}

\* C22: the item containers are those found by the first container selector
\* in list order that finds any; what later selectors find is not added.
C22_FirstContainerSelectorOnly ==
    (call.kind = "catalog" /\ call.cweb.fail = "none" /\ Finding(call.cweb.dom) # {}) =>
        LET first == CONTAINER_SELECTORS[Lowest(Finding(call.cweb.dom))]
        IN  /\ call.out.data = process_book_elements(find_elements(call.cweb.dom, first))
            /\ Len(call.out.data) <= Len(find_elements(call.cweb.dom, first))

C22_Witness ==
    /\ call.kind = "catalog"
    /\ call.cweb.fail = "none"
    /\ Cardinality(Finding(call.cweb.dom)) = 2
    /\ Lowest(Finding(call.cweb.dom)) = 2
    /\ find_elements(call.cweb.dom, CONTAINER_SELECTORS[2]) = <<Book("full")>>
    /\ find_elements(call.cweb.dom, CONTAINER_SELECTORS[4]) = <<Book("alt"), Book("full")>>
    /\ Len(call.out.data) = 1

\* reading some element of the container raises
Raising(book) == \E sel \in DOMAIN book : book[sel].raises

\* the containers the catalog call processes
Containers(c) == find_elements(c.cweb.dom, CONTAINER_SELECTORS[Lowest(Finding(c.cweb.dom))])

\* C23: a container whose extraction raises is skipped and the next ones
\* are still processed: the output holds, in order, one record for each
\* container that did not raise.
C23_FailingItemSkipped ==
    (call.kind = "catalog" /\ call.cweb.fail = "none" /\ Finding(call.cweb.dom) # {}) =>
        LET kept == SelectSeq(Containers(call), LAMBDA b : ~Raising(b))
        IN  /\ Len(call.out.data) =
                  Len(Containers(call))
                  - Cardinality({k \in DOMAIN Containers(call) : Raising(Containers(call)[k])})
            /\ call.out.data = [k \in DOMAIN kept |-> ProcessBook(kept[k])[1]]

C23_Witness ==
    /\ call.kind = "catalog"
    /\ call.cweb.fail = "none"
    /\ Finding(call.cweb.dom) # {}
    /\ Containers(call) = <<Book("stale"), Book("full")>>
    /\ call.out.data = ProcessBook(Book("full"))

\* C24 (as claimed): a second run on the same scraper, given the same
\* answers, yields the result list of a single run, and the count returned
\* by the GraphQL step is the number of entries that call extracted.
C24_RunsIndependent ==
    call.kind = "trending_rerun" =>
        /\ call.out.results = call.first.results
        /\ call.tweb.api.kind = "json" /\ call.tweb.api.has_keys =>
              call.count = Len(MediaEntriesFrom(call.tweb.api.media, 1))

\* C25: every entry a trending run produces, from the GraphQL answer or
\* from the cards of the listing page, has its tag equal to its title.
C25_TagEqualsTitle ==
    call.kind \in {"trending", "trending_rerun"} =>
        \A k \in DOMAIN call.out.results :
            call.out.results[k].tag = call.out.results[k].title

C25_Witness ==
    /\ call.kind = "trending"
    /\ call.tweb.api.kind = "request_error"
    /\ Len(call.out.results) = 1
    /\ call.out.results[1].title = "Dandadan"
    /\ call.out.results[1].tag = "Dandadan"

\* C27: when get_news escalates to the rendered path, the record returned
\* is the one the rendered path produced: a headline the static path had
\* resolved is discarded, so that when the rendered path finds no headline
\* the record holds the not-found headline.
C27_EscalationDiscardsStatic ==
    (call.kind = "get_news" /\ "selenium" \in Range(call.out.calls)) =>
        /\ call.out.result =
              get_news_with_selenium(call.source.name, call.source.url, call.rweb).result
        /\ ( /\ call.rweb.fail = "none"
             /\ Falsy(SeleniumHeadline(call.source.name, call.rweb.dom))
             /\ call.rweb.fb_headline.texts = <<>> ) =>
                call.out.result.Headline = "Headline tidak ditemukan"

C27_Witness ==
    /\ call.kind = "get_news"
    /\ call.sweb.outcome = "ok"
    /\ ~Falsy(StaticHeadline(call.source.name, call.sweb.soup))
    /\ Falsy(StaticImage(call.source.name, call.sweb.soup))
    /\ call.rweb.fail = "none"
    /\ Falsy(SeleniumHeadline(call.source.name, call.rweb.dom))
    /\ Falsy(SeleniumImage(call.source.name, call.rweb.dom))
    /\ ~call.rweb.fb_headline.raises /\ call.rweb.fb_headline.texts = <<>>
    /\ ~call.rweb.fb_image.raises /\ call.rweb.fb_image.srcs = <<>>
    /\ call.out.calls = <<"static", "selenium">>
    /\ call.out.result.Headline = "Headline tidak ditemukan"
    /\ call.out.result.Image = "Image tidak ditemukan"

(***************************************************************************)
(* Further properties of the API (checked under Spec)                      *)
(***************************************************************************)
\* C26 (as claimed): a GET trending that found no fresh artifact answers
\* only with what the run it triggered wrote, or with nothing: never with
\* the entries of an artifact written before the request.
C26_NoStaleTrendingServed ==
    (last.op = "get_anime" /\ last.invoked = {"anime"} /\ last.code = 200) =>
        \/ last.body = <<>>
        \/ /\ anime_json.exists
           /\ anime_json.mtime = last.at
           /\ last.body = anime_json.data

(***************************************************************************)
(* Properties of concurrent requests (checked under SpecConc)              *)
(***************************************************************************)
\* C21 (as claimed): a reader never observes a partially written trending
\* JSON: every read on the cached path answers 200 with the whole content
\* of some finished write.
C21_NoPartialRead ==
    (last.op = "get_anime" /\ last.invoked = {}) =>
        /\ last.code = 200
        /\ last.body \in SavedResults

====
